---- MODULE Spec2Model ----
(***************************************************************************)
(* SafeURL Predictor (src/app.py): a Streamlit script with two views.  The *)
(* prediction view posts the typed URL to a fixed endpoint and renders the *)
(* verdict; is_valid_url is a regular-expression shape check.              *)
(*                                                                         *)
(* Text (typed URLs, response bodies) is a sequence of one-character       *)
(* strings, so that parsing and matching work on characters.               *)
(***************************************************************************)
EXTENDS Integers, Sequences, FiniteSets, TLC

VARIABLES
    page,       \* st.session_state.page: the view the sidebar radio selects
    url_input,  \* the value of the "URL to Analyze" text input
    pc,         \* where the current script run is: Idle between runs
    requests,   \* the POSTs issued so far, in order
    clicks,     \* how often "Analyze URL" was clicked
    response,   \* what requests.post gave in the current run
    rendered,   \* the elements the current run has put on the page
    valid       \* the result of the last is_valid_url call

vars == <<page, url_input, pc, requests, clicks, response, rendered, valid>>

\* ------------------------------------------------------------------------
\* Bounds of the model
\* ------------------------------------------------------------------------

\* Number of "Analyze URL" clicks followed in one behaviour.
MaxSubmissions == 2

\* Longest host drawn character by character for is_valid_url.
MaxHostLen == 4

\* ------------------------------------------------------------------------
\* Characters
\* ------------------------------------------------------------------------

LowerLetters ==
    {"a","b","c","d","e","f","g","h","i","j","k","l","m",
     "n","o","p","q","r","s","t","u","v","w","x","y","z"}

UpperLetters ==
    {"A","B","C","D","E","F","G","H","I","J","K","L","M",
     "N","O","P","Q","R","S","T","U","V","W","X","Y","Z"}

DigitChars == <<"0","1","2","3","4","5","6","7","8","9">>

Digits == {DigitChars[i] : i \in 1..10}

\* Whitespace between JSON tokens.
JsonWhitespace == {" ", "\t", "\n", "\r"}

IsDigit(c) == c \in Digits

DigitVal(c) == (CHOOSE i \in 1..10 : DigitChars[i] = c) - 1

\* ------------------------------------------------------------------------
\* Python values, as json.loads builds them
\* ------------------------------------------------------------------------

PyNone == [type |-> "NoneType", neg |-> FALSE, num |-> 0, frac |-> <<>>,
           str |-> <<>>, items |-> <<>>]

PyInt(neg, n) == [PyNone EXCEPT !.type = "int", !.neg = neg, !.num = n]

PyFloat(neg, n, frac) ==
    [PyNone EXCEPT !.type = "float", !.neg = neg, !.num = n, !.frac = frac]

PyBool(b) == [PyNone EXCEPT !.type = "bool", !.num = IF b THEN 1 ELSE 0]

PyStr(s) == [PyNone EXCEPT !.type = "str", !.str = s]

PyDict(items) == [PyNone EXCEPT !.type = "dict", !.items = items]

PyList(items) == [PyNone EXCEPT !.type = "list", !.items = items]

\* Python's  value == k  for an int literal k (0 or 1 in the source): int,
\* bool and float operands compare by numeric value, everything else is
\* unequal to an int.
PyEqInt(v, k) ==
    CASE v.type = "int"   -> (IF v.neg THEN 0 - v.num ELSE v.num) = k
      [] v.type = "bool"  -> v.num = k
      [] v.type = "float" -> /\ (IF v.neg THEN 0 - v.num ELSE v.num) = k
                             /\ \A i \in DOMAIN v.frac : v.frac[i] = "0"
      [] OTHER            -> FALSE

\* ------------------------------------------------------------------------
\* response.json(): a JSON decoder on characters (no string escapes and no
\* exponents: the bodies drawn below hold neither)
\* ------------------------------------------------------------------------

ParseFail == [ok |-> FALSE, pos |-> 0, val |-> PyNone]

ParseOk(pos, val) == [ok |-> TRUE, pos |-> pos, val |-> val]

RECURSIVE SkipWs(_, _)
SkipWs(s, i) ==
    IF i <= Len(s) /\ s[i] \in JsonWhitespace THEN SkipWs(s, i + 1) ELSE i

\* First position from i on that does not hold a digit.
RECURSIVE DigitsEnd(_, _)
DigitsEnd(s, i) ==
    IF i <= Len(s) /\ IsDigit(s[i]) THEN DigitsEnd(s, i + 1) ELSE i

RECURSIVE DigitsValue(_)
DigitsValue(ds) ==
    IF ds = <<>> THEN 0
    ELSE 10 * DigitsValue(SubSeq(ds, 1, Len(ds) - 1)) + DigitVal(ds[Len(ds)])

HasLiteral(s, i, lit) ==
    /\ i + Len(lit) - 1 <= Len(s)
    /\ SubSeq(s, i, i + Len(lit) - 1) = lit

\* A number: -?(0|[1-9][0-9]*)(\.[0-9]+)?  An int without a fraction, a float
\* with one.
ParseNumber(s, i) ==
    LET neg == i <= Len(s) /\ s[i] = "-"
        j   == IF neg THEN i + 1 ELSE i
        k   == IF j <= Len(s) /\ s[j] = "0" THEN j + 1 ELSE DigitsEnd(s, j)
        m   == IF k <= Len(s) /\ s[k] = "." THEN DigitsEnd(s, k + 1) ELSE k
    IN  IF k = j THEN ParseFail
        ELSE IF m > k + 1
             THEN ParseOk(m, PyFloat(neg, DigitsValue(SubSeq(s, j, k - 1)),
                                     SubSeq(s, k + 1, m - 1)))
             ELSE ParseOk(k, PyInt(neg, DigitsValue(SubSeq(s, j, k - 1))))

\* A string: from the quote at i to the next quote.
ParseString(s, i) ==
    IF ~(i <= Len(s) /\ s[i] = "\"") THEN ParseFail
    ELSE LET ends == {j \in (i + 1)..Len(s) : s[j] = "\""}
         IN  IF ends = {} THEN ParseFail
             ELSE LET j == CHOOSE e \in ends : \A f \in ends : e <= f
                  IN  ParseOk(j + 1, PyStr(SubSeq(s, i + 1, j - 1)))

RECURSIVE ParseValue(_, _)
RECURSIVE ParseMembers(_, _, _)
RECURSIVE ParseElements(_, _, _)

\* The members of an object after "{" or ",": "key": value, then "," or "}".
ParseMembers(s, i, acc) ==
    LET key == ParseString(s, SkipWs(s, i))
    IN  IF ~key.ok THEN ParseFail
        ELSE LET c == SkipWs(s, key.pos)
             IN  IF ~(c <= Len(s) /\ s[c] = ":") THEN ParseFail
                 ELSE LET v == ParseValue(s, c + 1)
                      IN  IF ~v.ok THEN ParseFail
                          ELSE LET e    == SkipWs(s, v.pos)
                                   acc2 == Append(acc, <<key.val.str, v.val>>)
                               IN  IF e > Len(s) THEN ParseFail
                                   ELSE IF s[e] = "}"
                                        THEN ParseOk(e + 1, PyDict(acc2))
                                   ELSE IF s[e] = ","
                                        THEN ParseMembers(s, e + 1, acc2)
                                   ELSE ParseFail

\* The elements of an array after "[" or ",".
ParseElements(s, i, acc) ==
    LET v == ParseValue(s, i)
    IN  IF ~v.ok THEN ParseFail
        ELSE LET e    == SkipWs(s, v.pos)
                 acc2 == Append(acc, v.val)
             IN  IF e > Len(s) THEN ParseFail
                 ELSE IF s[e] = "]" THEN ParseOk(e + 1, PyList(acc2))
                 ELSE IF s[e] = "," THEN ParseElements(s, e + 1, acc2)
                 ELSE ParseFail

ParseValue(s, i0) ==
    LET i == SkipWs(s, i0)
    IN  IF i > Len(s) THEN ParseFail
        ELSE IF s[i] = "{"
             THEN LET j == SkipWs(s, i + 1)
                  IN  IF j <= Len(s) /\ s[j] = "}"
                      THEN ParseOk(j + 1, PyDict(<<>>))
                      ELSE ParseMembers(s, i + 1, <<>>)
        ELSE IF s[i] = "["
             THEN LET j == SkipWs(s, i + 1)
                  IN  IF j <= Len(s) /\ s[j] = "]"
                      THEN ParseOk(j + 1, PyList(<<>>))
                      ELSE ParseElements(s, i + 1, <<>>)
        ELSE IF s[i] = "\"" THEN ParseString(s, i)
        ELSE IF HasLiteral(s, i, <<"t","r","u","e">>)
             THEN ParseOk(i + 4, PyBool(TRUE))
        ELSE IF HasLiteral(s, i, <<"f","a","l","s","e">>)
             THEN ParseOk(i + 5, PyBool(FALSE))
        ELSE IF HasLiteral(s, i, <<"n","u","l","l">>)
             THEN ParseOk(i + 4, PyNone)
        ELSE ParseNumber(s, i)

\* json.loads: one value, then nothing but whitespace.
json_loads(s) ==
    LET v == ParseValue(s, 1)
    IN  IF v.ok /\ SkipWs(s, v.pos) = Len(s) + 1 THEN v ELSE ParseFail

\* dict.get(key, None): the value of the last member with that key.
dict_get(d, key) ==
    LET hits == {i \in DOMAIN d.items : d.items[i][1] = key}
    IN  IF hits = {} THEN PyNone
        ELSE d.items[CHOOSE i \in hits : \A j \in hits : j <= i][2]

\* ------------------------------------------------------------------------
\* Quantifiers of the regular expression (src/app.py lines 25 and 27)
\* ------------------------------------------------------------------------

\* [A-Z0-9](?:[A-Z0-9-]{0,61}[A-Z0-9])? : a label holds at most 63 characters.
MaxLabelLen == 63

\* [A-Z]{2,6} and [A-Z0-9-]{2,} : the last label holds at least 2.
MinTldLen == 2

\* [A-Z]{2,6}
MaxLetterTldLen == 6

\* \d{1,3}
MaxOctetLen == 3

\* ------------------------------------------------------------------------
\* is_valid_url: the regular expression of lines 23-29, matched on
\* characters.  Each piece maps a start position to the set of positions
\* at which a match of the piece can end (the next unread position), so
\* that backtracking is the union over the choices.
\* ------------------------------------------------------------------------

\* What \s matches among the characters drawn here.
RegexWhitespace == {" ", "\t", "\n", "\r", "\f"}

LowerSeq == <<"a","b","c","d","e","f","g","h","i","j","k","l","m",
              "n","o","p","q","r","s","t","u","v","w","x","y","z">>

UpperSeq == <<"A","B","C","D","E","F","G","H","I","J","K","L","M",
              "N","O","P","Q","R","S","T","U","V","W","X","Y","Z">>

\* re.IGNORECASE: letters are compared in lower case.
Lower(c) ==
    IF c \in UpperLetters
    THEN LowerSeq[CHOOSE i \in 1..26 : UpperSeq[i] = c]
    ELSE c

\* [A-Z] under IGNORECASE
IsLetter(c) == c \in LowerLetters \cup UpperLetters

\* [A-Z0-9]
IsAlnum(c) == IsLetter(c) \/ IsDigit(c)

\* [A-Z0-9-]
IsAlnumHyphen(c) == IsAlnum(c) \/ c = "-"

\* A literal of the pattern (written in lower case) at position i.
LitEnds(s, i, lit) ==
    IF /\ i + Len(lit) - 1 <= Len(s)
       /\ \A k \in 1..Len(lit) : Lower(s[i + k - 1]) = lit[k]
    THEN {i + Len(lit)}
    ELSE {}

\* ^(?:http|ftp)s?://
SchemeEnds(s) ==
    LET name == LitEnds(s, 1, <<"h","t","t","p">>)
                  \cup LitEnds(s, 1, <<"f","t","p">>)
        opt_s == name \cup UNION {LitEnds(s, j, <<"s">>) : j \in name}
    IN  UNION {LitEnds(s, j, <<":","/","/">>) : j \in opt_s}

\* [A-Z0-9](?:[A-Z0-9-]{0,61}[A-Z0-9])?\.   one label and its dot
LabelEnds(s, i) ==
    {j + 1 : j \in {d \in (i + 1)..Len(s) :
                      /\ s[d] = "."
                      /\ d - i <= MaxLabelLen
                      /\ IsAlnum(s[i])
                      /\ IsAlnum(s[d - 1])
                      /\ \A k \in i..(d - 1) : IsAlnumHyphen(s[k])}}

\* (?: label \. )+
RECURSIVE LabelsEnds(_, _)
LabelsEnds(s, i) ==
    LET one == LabelEnds(s, i)
    IN  one \cup UNION {LabelsEnds(s, j) : j \in one}

\* \.?  after a piece that ends at one of the positions of ends
OptDot(s, ends) == ends \cup {j + 1 : j \in {e \in ends : e <= Len(s) /\ s[e] = "."}}

\* (?:[A-Z]{2,6}\.?|[A-Z0-9-]{2,}\.?)
TldEnds(s, i) ==
    LET letters == {j \in (i + MinTldLen)..(Len(s) + 1) :
                      /\ j - i <= MaxLetterTldLen
                      /\ \A k \in i..(j - 1) : IsLetter(s[k])}
        any     == {j \in (i + MinTldLen)..(Len(s) + 1) :
                      \A k \in i..(j - 1) : IsAlnumHyphen(s[k])}
    IN  OptDot(s, letters) \cup OptDot(s, any)

\* (?:label\.)+ tld
DomainEnds(s, i) == UNION {TldEnds(s, j) : j \in LabelsEnds(s, i)}

\* localhost
LocalhostEnds(s, i) == LitEnds(s, i, <<"l","o","c","a","l","h","o","s","t">>)

\* \d{1,3}
OctetEnds(s, i) ==
    {j \in (i + 1)..(Len(s) + 1) :
        /\ j - i <= MaxOctetLen
        /\ \A k \in i..(j - 1) : IsDigit(s[k])}

\* \d{1,3}\.   an octet and its dot
OctetDotEnds(s, i) == UNION {LitEnds(s, j, <<".">>) : j \in OctetEnds(s, i)}

\* \d{1,3}\.\d{1,3}\.\d{1,3}\.\d{1,3}
Ipv4Ends(s, i) ==
    LET a == OctetDotEnds(s, i)
        b == UNION {OctetDotEnds(s, j) : j \in a}
        c == UNION {OctetDotEnds(s, j) : j \in b}
    IN  UNION {OctetEnds(s, j) : j \in c}

\* (?: domain | localhost | ipv4 )
HostEnds(s, i) == DomainEnds(s, i) \cup LocalhostEnds(s, i) \cup Ipv4Ends(s, i)

\* (?::\d+)?
PortEnds(s, i) ==
    {i} \cup {j \in (i + 2)..(Len(s) + 1) :
                /\ s[i] = ":"
                /\ \A k \in (i + 1)..(j - 1) : IsDigit(s[k])}

\* $ : at the end of the string, or just before a newline that ends it
AtDollar(s, p) == p = Len(s) + 1 \/ (p = Len(s) /\ s[p] = "\n")

\* (?:/?|[/?]\S+)$
TailMatches(s, i) ==
    \E p \in i..(Len(s) + 1) :
        /\ AtDollar(s, p)
        /\ \/ p = i
           \/ p = i + 1 /\ s[i] = "/"
           \/ /\ p >= i + 2
              /\ s[i] \in {"/", "?"}
              /\ \A k \in (i + 1)..(p - 1) : s[k] \notin RegexWhitespace

\* Variant of is_valid_url: the pattern lacks its tail and its $ anchor.
is_valid_url_unanchored(url) ==
    \E h \in SchemeEnds(url) :
        \E e \in HostEnds(url, h) : PortEnds(url, e) # {}

\* re.match(url_regex, url) is not None
is_valid_url(url) ==
    \E h \in SchemeEnds(url) :
        \E e \in HostEnds(url, h) :
            \E q \in PortEnds(url, e) : TailMatches(url, q)

\* ------------------------------------------------------------------------
\* Configuration and the values the user and the endpoint can supply
\* ------------------------------------------------------------------------

SPACE_API_URL == "https://nayds004-url-predictor-space.hf.space/predict"

Pages == {"Project Info", "URL Prediction"}

\* value= of the text input
DefaultUrl ==
    <<"h","t","t","p","s",":","/","/","w","w","w",".","g","o","o","g","l","e",".","c","o","m","/","s","e","a","r","c","h","?","q","=","s","a","f","e","u","r","l">>

\* What the user may type into the text input.
TypedUrls ==
    {<<"h","t","t","p",":","/","/","x">>,
     <<" ","h","t","t","p",":","/","/","x"," ">>,
     <<"n","o","t"," ","a"," ","u","r","l">>,
     <<>>}

\* HTTP statuses the endpoint may answer with.
Statuses == {199, 200, 201, 204, 299, 300, 404, 500}

\* Response bodies the endpoint may answer with.
Bodies ==
    {<<"{","\"","p","r","e","d","i","c","t","i","o","n","\"",":"," ","1","}">>,
     <<"{","\"","p","r","e","d","i","c","t","i","o","n","\"",":"," ","0","}">>,
     <<"{","}">>,
     <<"{","\"","p","r","e","d","i","c","t","i","o","n","\"",":"," ","2","}">>,
     <<"{","\"","p","r","e","d","i","c","t","i","o","n","\"",":"," ","-","1","}">>,
     <<"{","\"","p","r","e","d","i","c","t","i","o","n","\"",":"," ","\"","1","\"","}">>,
     <<"{","\"","p","r","e","d","i","c","t","i","o","n","\"",":"," ","\"","0","\"","}">>,
     <<"{","\"","p","r","e","d","i","c","t","i","o","n","\"",":"," ","t","r","u","e","}">>,
     <<"{","\"","p","r","e","d","i","c","t","i","o","n","\"",":"," ","f","a","l","s","e","}">>,
     <<"{","\"","p","r","e","d","i","c","t","i","o","n","\"",":"," ","n","u","l","l","}">>,
     <<"{","\"","p","r","e","d","i","c","t","i","o","n","\"",":"," ","1",".","0","}">>,
     <<"{","\"","p","r","e","d","i","c","t","i","o","n","\"",":"," ","0",".","0","}">>,
     <<"{","\"","p","r","e","d","i","c","t","i","o","n","\"",":"," ","1",".","5","}">>,
     <<"{","\"","l","a","b","e","l","\"",":"," ","1","}">>,
     <<"s","e","r","v","e","r"," ","e","r","r","o","r">>,
     <<"[","1","]">>,
     <<"{","\"","p","r","e","d","i","c","t","i","o","n","\"",":"," ","1">>,
     <<>>}

\* Exceptions requests.post may raise (all subclasses of Exception).
TransportFailures == {"ConnectionError", "Timeout", "SSLError"}

NoResponse == [kind |-> "none", status_code |-> 0, text |-> <<>>, detail |-> ""]

Raised(detail) == [NoResponse EXCEPT !.kind = "exception", !.detail = detail]

Answered(status_code, text) ==
    [NoResponse EXCEPT !.kind = "response", !.status_code = status_code,
                       !.text = text]

\* ------------------------------------------------------------------------
\* What a script run renders, element by element
\* ------------------------------------------------------------------------

Elem(fn, msg) == [fn |-> fn, msg |-> msg, code |-> 0, text |-> <<>>, detail |-> ""]

\* st.error(f"API Error: {response.status_code} - {response.text}")
ApiErrorElem(status_code, text) ==
    [Elem("error", "API Error") EXCEPT !.code = status_code, !.text = text]

\* st.error(f"Request failed: {str(e)}")
RequestFailedElem(detail) ==
    [Elem("error", "Request failed") EXCEPT !.detail = detail]

MaliciousElem == Elem("error", "MALICIOUS URL")

BenignElem == Elem("success", "BENIGN URL")

UnavailableElem == Elem("warning", "Prediction unavailable.")

\* str.strip()
RECURSIVE Strip(_)
Strip(s) ==
    IF s # <<>> /\ s[1] \in RegexWhitespace THEN Strip(Tail(s))
    ELSE IF s # <<>> /\ s[Len(s)] \in RegexWhitespace
         THEN Strip(SubSeq(s, 1, Len(s) - 1))
    ELSE s

\* Variant of SubmittedUrlElem: the echoed URL is stripped.
SubmittedUrlElemStripped(url) == [Elem("json", "url") EXCEPT !.text = Strip(url)]

\* st.json({"url": url_input})
SubmittedUrlElem(url) == [Elem("json", "url") EXCEPT !.text = url]

\* info_page()
InfoPageElems ==
    << Elem("title", "SafeURL Predictor: Project Overview"),
       Elem("markdown", "Project Mission"),
       Elem("subheader", "Student Information"),
       Elem("info", "Name"),
       Elem("info", "Course"),
       Elem("info", "Date") >>

\* prediction_page() down to the button
PredictionFormElems(url) ==
    << Elem("title", "URL Safety Checker"),
       Elem("subheader", "Enter a URL to check if it is safe."),
       Elem("markdown", "---"),
       [Elem("text_input", "URL to Analyze") EXCEPT !.text = url],
       Elem("button", "Analyze URL") >>

\* Variant of ButtonRendered: the button is reachable from either view.
ButtonRenderedInAnyView(p) == TRUE

\* main() calls prediction_page, which holds the button, only when the
\* selection is not "Project Info" (lines 127-130).
ButtonRendered(p) == p # "Project Info"

\* main(): the view the navigation selection dispatches to, on a run in
\* which the button was not clicked
RenderPage(p, url) ==
    IF p = "Project Info" THEN InfoPageElems ELSE PredictionFormElems(url)

\* ------------------------------------------------------------------------
\* prediction_page(): the body of  if st.button("Analyze URL")
\* ------------------------------------------------------------------------

\* Variant of ShapeCheckPasses: the commented-out enforcement is active.
ShapeCheckEnforced(url) == is_valid_url(url)

\* The enforcement of is_valid_url is commented out (lines 80-83): every
\* input passes.
ShapeCheckPasses(url) == TRUE

\* json={"url": url_input}
RequestJson(url) == [url |-> url]

PostRequest(url) == [target |-> SPACE_API_URL, json |-> RequestJson(url)]

\* Variant of StatusIsSuccess: any status below 400 is taken as a success.
StatusBelow400(status_code) == status_code < 400

\* Variant of StatusIsSuccess: the whole 2xx range is taken as a success.
StatusIs2xx(status_code) == status_code >= 200 /\ status_code <= 299

\* if response.status_code == 200
StatusIsSuccess(status_code) == status_code = 200

\* Variant of Catches: only the exceptions of requests.post are caught.
CatchesTransportOnly(exc) == exc \in TransportFailures

\* except Exception as e: every exception raised in the try block is one.
Catches(exc) == TRUE

PREDICTION == <<"p","r","e","d","i","c","t","i","o","n">>

\* Variant of OutcomeElem: every number but 0 is taken as malicious.
OutcomeElemNonZero(prediction) ==
    IF PyEqInt(prediction, 0) THEN BenignElem
    ELSE IF prediction.type \in {"int", "float", "bool"} THEN MaliciousElem
    ELSE UnavailableElem

\* if prediction == 1 / elif prediction == 0 / else
OutcomeElem(prediction) ==
    IF PyEqInt(prediction, 1) THEN MaliciousElem
    ELSE IF PyEqInt(prediction, 0) THEN BenignElem
    ELSE UnavailableElem

\* The result block after the try statement (lines 100-111).
ResultElems(prediction, url) ==
    << Elem("toast", "Analysis complete!"),
       Elem("markdown", "### Result"),
       OutcomeElem(prediction),
       Elem("markdown", "### Submitted URL"),
       SubmittedUrlElem(url) >>

Exit(next_pc, elems) == [pc |-> next_pc, elems |-> elems]

\* except Exception as e: st.error(...); return.  An exception the clause
\* does not catch leaves the script run.
OnException(exc) ==
    IF Catches(exc)
    THEN Exit("TransportFailed", <<RequestFailedElem(exc)>>)
    ELSE Exit("Crashed", <<>>)

\* Variant of AfterPost: the API-error branch lacks its return and falls
\* through to the result block with prediction unset.
AfterPostFallsThrough(resp, url) ==
    IF resp.kind = "exception" THEN OnException(resp.detail)
    ELSE IF StatusIsSuccess(resp.status_code)
         THEN LET result == json_loads(resp.text)
              IN  IF ~result.ok THEN OnException("JSONDecodeError")
                  ELSE IF result.val.type # "dict"
                       THEN OnException("AttributeError")
                  ELSE Exit("Succeeded",
                            ResultElems(dict_get(result.val, PREDICTION), url))
         ELSE Exit("ApiErrored",
                   <<ApiErrorElem(resp.status_code, resp.text)>>
                     \o ResultElems(PyNone, url))

\* Lines 90-111 once requests.post has returned or raised: where the run
\* ends and what it rendered after the form.
AfterPost(resp, url) ==
    IF resp.kind = "exception" THEN OnException(resp.detail)
    ELSE IF StatusIsSuccess(resp.status_code)
         THEN LET result == json_loads(resp.text)
              IN  IF ~result.ok THEN OnException("JSONDecodeError")
                  ELSE IF result.val.type # "dict"
                       THEN OnException("AttributeError")
                  ELSE Exit("Succeeded",
                            ResultElems(dict_get(result.val, PREDICTION), url))
         ELSE Exit("ApiErrored",
                   <<ApiErrorElem(resp.status_code, resp.text)>>)

\* ------------------------------------------------------------------------
\* The state machine: one step per user interaction or endpoint answer
\* ------------------------------------------------------------------------

Terminal == {"Succeeded", "TransportFailed", "ApiErrored", "Crashed"}

Init ==
    /\ page = "Project Info"
    /\ url_input = DefaultUrl
    /\ pc = "Idle"
    /\ requests = <<>>
    /\ clicks = 0
    /\ response = NoResponse
    /\ rendered = InfoPageElems
    /\ valid = "unchecked"

\* The user picks the other entry of the sidebar radio: the script reruns
\* with the button not clicked.  A text input that was not rendered in a
\* run comes back with its value= default.
Navigate(p) ==
    /\ pc = "Idle"
    /\ p # page
    /\ page' = p
    /\ url_input' = DefaultUrl
    /\ response' = NoResponse
    /\ rendered' = RenderPage(p, DefaultUrl)
    /\ UNCHANGED <<pc, requests, clicks, valid>>

\* The user edits the text input: the script reruns with the button not
\* clicked.
TypeUrl(s) ==
    /\ pc = "Idle"
    /\ page = "URL Prediction"
    /\ s # url_input
    /\ url_input' = s
    /\ response' = NoResponse
    /\ rendered' = RenderPage(page, s)
    /\ UNCHANGED <<page, pc, requests, clicks, valid>>

\* The user clicks "Analyze URL": the script reruns, the button returns
\* True and requests.post is called (lines 78-89).
ClickAnalyze ==
    /\ pc = "Idle"
    /\ ButtonRendered(page)
    /\ clicks < MaxSubmissions
    /\ clicks' = clicks + 1
    /\ response' = NoResponse
    /\ IF ShapeCheckPasses(url_input)
       THEN /\ requests' = Append(requests, PostRequest(url_input))
            /\ rendered' = Append(PredictionFormElems(url_input),
                                  Elem("spinner", "Sending URL to Space API for prediction..."))
            /\ pc' = "Submitting"
       ELSE /\ requests' = requests
            /\ rendered' = Append(PredictionFormElems(url_input),
                                  Elem("error", "Invalid URL format."))
            /\ pc' = "Idle"
    /\ UNCHANGED <<page, url_input, valid>>

\* The rest of prediction_page once requests.post has raised or returned
\* (lines 89-111).
PostCompletes(resp) ==
    /\ pc = "Submitting"
    /\ response' = resp
    /\ LET exit == AfterPost(resp, url_input)
       IN  /\ pc' = exit.pc
           /\ rendered' = PredictionFormElems(url_input) \o exit.elems
    /\ UNCHANGED <<page, url_input, requests, clicks, valid>>

\* requests.post raises a transport failure.
PostRaises ==
    /\ pc = "Submitting"
    /\ \E d \in TransportFailures : PostCompletes(Raised(d))

\* requests.post returns the endpoint's response.
PostReturns ==
    /\ pc = "Submitting"
    /\ \E st \in Statuses : \E body \in Bodies : PostCompletes(Answered(st, body))

\* prediction_page and main return: the run is over and the app waits for
\* the next interaction.
ScriptEnds ==
    /\ pc \in Terminal \ {"Crashed"}
    /\ pc' = "Idle"
    /\ UNCHANGED <<page, url_input, requests, clicks, response, rendered, valid>>

Next ==
    \/ \E p \in Pages : Navigate(p)
    \/ \E s \in TypedUrls \cup {DefaultUrl} : TypeUrl(s)
    \/ ClickAnalyze
    \/ PostRaises
    \/ PostReturns
    \/ ScriptEnds

Spec == Init /\ [][Next]_vars

\* ------------------------------------------------------------------------
\* is_valid_url on its own: the candidates it is applied to
\* ------------------------------------------------------------------------

HostAlphabet == {"a", "1", "-", "."}

\* Every string over HostAlphabet of at most MaxHostLen characters.
DrawnHosts == UNION {[1..k -> HostAlphabet] : k \in 0..MaxHostLen}

SampleHosts ==
    {<<"l","o","c","a","l","h","o","s","t">>,
     <<"L","o","c","a","l","H","o","s","t">>,
     <<"1","0",".","0",".","0",".","1">>,
     <<"9","9","9",".","9","9","9",".","9","9","9",".","9","9","9">>,
     <<"1",".","2",".","3">>,
     <<"1",".","2",".","3",".","4","5","6","7">>,
     <<"e","x","a","m","p","l","e",".","c","o","m">>,
     <<"e","x","a","m","p","l","e",".","c","o","m",".">>,
     <<"E","X","A","M","P","L","E",".","C","O","M">>,
     <<"a","-","b",".","c","d">>,
     <<"s","u","b",".","e","x","a","m","p","l","e",".","o","r","g">>,
     <<"a",".","b","c","d","e","f","g","h">>,
     <<"x">>}

FewPrefixes ==
    {<<"h","t","t","p",":","/","/">>,
     <<"f","t","p","s",":","/","/">>,
     <<"h","t","p",":","/","/">>}

AllPrefixes ==
    {<<"h","t","t","p",":","/","/">>,
     <<"h","t","t","p","s",":","/","/">>,
     <<"f","t","p",":","/","/">>,
     <<"f","t","p","s",":","/","/">>,
     <<"H","t","T","p",":","/","/">>,
     <<"h","t","t","p",":","/">>,
     <<"h","t","t","p","s","s",":","/","/">>,
     <<"m","a","i","l","t","o",":","/","/">>,
     <<" ","h","t","t","p",":","/","/">>,
     <<>>}

FewPorts ==
    {<<>>,
     <<":","8">>,
     <<":","x">>}

AllPorts ==
    {<<>>,
     <<":","8">>,
     <<":","8","0","8","0">>,
     <<":">>,
     <<":","x">>}

FewTails ==
    {<<>>,
     <<"/","p">>,
     <<"\n">>,
     <<"/"," ","p">>}

AllTails ==
    {<<>>,
     <<"/">>,
     <<"/","p">>,
     <<"?","q">>,
     <<"/","p","a","t","h","?","q","=","1">>,
     <<"/"," ","p">>,
     <<"\n">>,
     <<"/","p","\n">>,
     <<"/","\n","\n">>,
     <<"x">>,
     <<" ">>,
     <<"?">>}

Candidates(prefixes, hosts, ports, tails) ==
    {p \o h \o q \o t : p \in prefixes, h \in hosts, q \in ports, t \in tails}

ValidatorInputs ==
    Candidates(FewPrefixes, DrawnHosts, FewPorts, FewTails)
      \cup Candidates(AllPrefixes, SampleHosts, AllPorts, AllTails)
      \cup TypedUrls \cup {DefaultUrl}

ValidatorInit ==
    /\ page = "Project Info"
    /\ url_input \in ValidatorInputs
    /\ pc = "Idle"
    /\ requests = <<>>
    /\ clicks = 0
    /\ response = NoResponse
    /\ rendered = InfoPageElems
    /\ valid = "unchecked"

\* return re.match(url_regex, url) is not None
CheckUrl ==
    /\ valid = "unchecked"
    /\ valid' = IF is_valid_url(url_input) THEN "valid" ELSE "invalid"
    /\ UNCHANGED <<page, url_input, pc, requests, clicks, response, rendered>>

ValidatorNext == CheckUrl

ValidatorSpec == ValidatorInit /\ [][ValidatorNext]_vars

\* ------------------------------------------------------------------------
\* Properties
\* ------------------------------------------------------------------------

Has(e) == \E i \in DOMAIN rendered : rendered[i] = e

OutcomeElems == {MaliciousElem, BenignElem, UnavailableElem}

\* How many of the three outcome messages the run has rendered.
OutcomeCount == Cardinality({i \in DOMAIN rendered : rendered[i] \in OutcomeElems})

\* How many "API Error" / "Request failed" messages the run has rendered.
ErrorCount ==
    Cardinality({i \in DOMAIN rendered :
                   rendered[i].fn = "error"
                     /\ rendered[i].msg \in {"API Error", "Request failed"}})

\* How many times the run has rendered the "Submitted URL" artifact.
EchoCount == Cardinality({i \in DOMAIN rendered : rendered[i].fn = "json"})

Echoed(url) ==
    \E i \in DOMAIN rendered : rendered[i].fn = "json" /\ rendered[i].text = url

Is2xx(status_code) == status_code >= 200 /\ status_code <= 299

\* The decoded body of the response of the current run.
Decoded == json_loads(response.text)

DecodesToObject == Decoded.ok /\ Decoded.val.type = "dict"

HasPrediction == \E i \in DOMAIN Decoded.val.items : Decoded.val.items[i][1] = PREDICTION

PredictionField == dict_get(Decoded.val, PREDICTION)

\* The field is a JSON integer of value k.
IsInteger(v, k) == v.type = "int" /\ (IF v.neg THEN 0 - v.num ELSE v.num) = k

Body_Prediction2 == <<"{","\"","p","r","e","d","i","c","t","i","o","n","\"",":"," ","2","}">>

Body_Prediction1 == <<"{","\"","p","r","e","d","i","c","t","i","o","n","\"",":"," ","1","}">>

Body_ServerError == <<"s","e","r","v","e","r"," ","e","r","r","o","r">>

Url_Padded == <<" ","h","t","t","p",":","/","/","x"," ">>

\* C1: on a 200 response with a JSON object body, the integer 1 renders
\* Malicious, the integer 0 renders Benign, every other integer and an
\* absent field render Unavailable, and exactly one of the three messages
\* is rendered.
C1_ThreeWayOutcome ==
    (response.kind = "response" /\ response.status_code = 200 /\ DecodesToObject)
      => /\ OutcomeCount = 1
         /\ IsInteger(PredictionField, 1) => Has(MaliciousElem)
         /\ IsInteger(PredictionField, 0) => Has(BenignElem)
         /\ (~HasPrediction
               \/ (PredictionField.type = "int"
                     /\ ~IsInteger(PredictionField, 1)
                     /\ ~IsInteger(PredictionField, 0)))
              => Has(UnavailableElem)

C1_Witness ==
    /\ pc = "Succeeded"
    /\ response.status_code = 200
    /\ response.text = Body_Prediction2
    /\ Has(UnavailableElem)

\* C2: a response whose status is not 2xx ends in ApiError carrying the
\* status code and the raw body, and none of the three outcome messages is
\* rendered.
C2_NonSuccessStatusIsApiError ==
    (response.kind = "response" /\ ~Is2xx(response.status_code))
      => /\ pc \in {"ApiErrored", "Idle"}
         /\ Has(ApiErrorElem(response.status_code, response.text))
         /\ OutcomeCount = 0

C2_Witness ==
    /\ pc = "ApiErrored"
    /\ response.status_code = 500
    /\ response.text = Body_ServerError
    /\ Has(ApiErrorElem(500, Body_ServerError))

\* C3: a transport failure of the POST, or a 200 body that fails to decode,
\* ends in RequestFailed with the failure's description rendered; the
\* exception does not leave prediction_page and none of the three outcome
\* messages is rendered.
C3_FailuresAreReported ==
    /\ pc # "Crashed"
    /\ response.kind = "exception"
         => /\ pc \in {"TransportFailed", "Idle"}
            /\ Has(RequestFailedElem(response.detail))
            /\ OutcomeCount = 0
    /\ (response.kind = "response" /\ response.status_code = 200 /\ ~Decoded.ok)
         => /\ pc \in {"TransportFailed", "Idle"}
            /\ Has(RequestFailedElem("JSONDecodeError"))
            /\ OutcomeCount = 0

C3_Witness ==
    /\ pc = "TransportFailed"
    /\ response.kind = "response"
    /\ response.status_code = 200
    /\ response.text = Body_ServerError
    /\ Has(RequestFailedElem("JSONDecodeError"))

\* C4 as stated: whichever outcome a submission ends in, the submitted URL
\* has been echoed back unchanged.
C4_EchoInEveryBranch == pc \in Terminal => Echoed(url_input)

\* C4 as amended: a submission that ends in Malicious, Benign or
\* Unavailable has echoed the submitted URL once and unchanged; one that
\* ends in RequestFailed or ApiError has not echoed it.
C4_EchoOnlyAfterOutcome ==
    /\ pc = "Succeeded" => (Echoed(url_input) /\ EchoCount = 1)
    /\ pc \in {"TransportFailed", "ApiErrored"} => EchoCount = 0

C4_Witness ==
    /\ pc = "Succeeded"
    /\ url_input = Url_Padded
    /\ Echoed(Url_Padded)

\* C5 as stated: every 2xx response (whose body decodes to an object) is
\* classified into one of the three outcomes and never produces ApiError.
C5_Every2xxIsClassified ==
    (response.kind = "response" /\ Is2xx(response.status_code) /\ DecodesToObject)
      => (OutcomeCount = 1 /\ ErrorCount = 0)

\* C5 as amended: only status 200 is parsed: a 200 response never produces
\* ApiError and is classified when its body decodes to an object; every
\* other status, 201..299 included, produces ApiError and no outcome.
C5_Only200IsClassified ==
    response.kind = "response"
      => /\ response.status_code = 200
              => /\ ~Has(ApiErrorElem(response.status_code, response.text))
                 /\ DecodesToObject => (OutcomeCount = 1 /\ ErrorCount = 0)
         /\ response.status_code # 200
              => /\ Has(ApiErrorElem(response.status_code, response.text))
                 /\ OutcomeCount = 0

C5_Witness ==
    /\ pc = "ApiErrored"
    /\ response.status_code = 201
    /\ response.text = Body_Prediction1
    /\ Has(ApiErrorElem(201, Body_Prediction1))

\* C6: on a 200 response, only the integer 1 renders Malicious and only the
\* integer 0 renders Benign: strings, booleans, null and non-integer numbers
\* render Unavailable.
C6_StrictTypeMatching ==
    (response.kind = "response" /\ response.status_code = 200 /\ DecodesToObject)
      => /\ Has(MaliciousElem) => IsInteger(PredictionField, 1)
         /\ Has(BenignElem) => IsInteger(PredictionField, 0)

\* C7: every click issues a POST to the endpoint whose body is
\* {"url": <input>} with the input unchanged, whatever is_valid_url says
\* of the input.
C7_EveryClickPostsVerbatim ==
    /\ Len(requests) = clicks
    /\ \A i \in DOMAIN requests :
          requests[i].target = SPACE_API_URL /\ DOMAIN requests[i].json = {"url"}
    /\ pc = "Submitting" => requests[Len(requests)].json.url = url_input

C7_Witness ==
    /\ pc = "Submitting"
    /\ url_input = <<>>
    /\ ~is_valid_url(url_input)
    /\ requests[Len(requests)].json.url = <<>>

\* C8: no call is in flight while the informational view is selected; a
\* POST is issued only by a click in the prediction view, and a change of
\* the navigation selection issues none.
C8_OnlySubmitPosts ==
    /\ [](page = "Project Info" => pc = "Idle")
    /\ [][requests' # requests
            => /\ page = "URL Prediction"
               /\ page' = page
               /\ clicks' = clicks + 1
               /\ Len(requests') = Len(requests) + 1]_vars

C8_Witness ==
    /\ page = "Project Info"
    /\ clicks = 1
    /\ Len(requests) = 1

\* ---- the shapes C9 speaks of, read off the string from left to right

LowerStr(s) == [i \in 1..Len(s) |-> Lower(s[i])]

ShapePrefixes ==
    {<<"h","t","t","p",":","/","/">>, <<"h","t","t","p","s",":","/","/">>,
     <<"f","t","p",":","/","/">>, <<"f","t","p","s",":","/","/">>}

HostChars == LowerLetters \cup UpperLetters \cup Digits \cup {"-", "."}

\* First position from i on whose character is not in cls.
RECURSIVE RunEnd(_, _, _)
RunEnd(s, i, cls) ==
    IF i <= Len(s) /\ s[i] \in cls THEN RunEnd(s, i + 1, cls) ELSE i

\* The pieces of s between its dots.
RECURSIVE SplitDots(_)
SplitDots(s) ==
    LET d == RunEnd(s, 1, HostChars \ {"."})
    IN  IF d > Len(s) THEN <<s>>
        ELSE <<SubSeq(s, 1, d - 1)>> \o SplitDots(SubSeq(s, d + 1, Len(s)))

\* Alphanumeric with optional internal hyphens.
PlainLabel(l) ==
    /\ l # <<>>
    /\ IsAlnum(l[1])
    /\ IsAlnum(l[Len(l)])
    /\ \A k \in DOMAIN l : IsAlnumHyphen(l[k])

LettersLabel(l) == Len(l) >= 2 /\ \A k \in DOMAIN l : IsLetter(l[k])

LooseLabel(l) == Len(l) >= 2 /\ \A k \in DOMAIN l : IsAlnumHyphen(l[k])

DigitGroup(l) == Len(l) \in 1..3 /\ \A k \in DOMAIN l : IsDigit(l[k])

IsLocalhost(h) == LowerStr(h) = <<"l","o","c","a","l","h","o","s","t">>

IsDottedQuad(h) ==
    LET ls == SplitDots(h)
    IN  Len(ls) = 4 /\ \A k \in 1..4 : DigitGroup(ls[k])

\* Hostname as C9 states it: the final label is 2 or more letters.
IsClaimedHostname(h) ==
    LET ls == SplitDots(h)
    IN  /\ Len(ls) >= 2
        /\ \A k \in 1..(Len(ls) - 1) : PlainLabel(ls[k])
        /\ LettersLabel(ls[Len(ls)])

\* Hostname as the pattern has it: the final label is 2 or more letters,
\* digits or hyphens, and one dot may follow it.
IsLooseHostname(h) ==
    LET h2 == IF h # <<>> /\ h[Len(h)] = "." THEN SubSeq(h, 1, Len(h) - 1) ELSE h
        ls == SplitDots(h2)
    IN  /\ Len(ls) >= 2
        /\ \A k \in 1..(Len(ls) - 1) : PlainLabel(ls[k])
        /\ LooseLabel(ls[Len(ls)])

\* Empty, or a path/query that starts with / or ? and holds no whitespace.
IsPathOrQuery(t) ==
    t = <<>> \/ (t[1] \in {"/", "?"} /\ \A k \in DOMAIN t : t[k] \notin RegexWhitespace)

DropFinalNewline(t) ==
    IF t # <<>> /\ t[Len(t)] = "\n" THEN SubSeq(t, 1, Len(t) - 1) ELSE t

\* scheme :// host [:port] [path/query], the host run taken as far as host
\* characters go and the port as far as digits go.
HasUrlShape(s, loose) ==
    \E p \in ShapePrefixes :
        /\ Len(s) >= Len(p)
        /\ SubSeq(LowerStr(s), 1, Len(p)) = p
        /\ LET h     == Len(p) + 1
               e     == RunEnd(s, h, HostChars)
               host  == SubSeq(s, h, e - 1)
               q     == IF e <= Len(s) /\ s[e] = ":"
                        THEN RunEnd(s, e + 1, Digits) ELSE e
               rest  == SubSeq(s, q, Len(s))
           IN  /\ \/ IF loose THEN IsLooseHostname(host) ELSE IsClaimedHostname(host)
                  \/ IsLocalhost(host)
                  \/ IsDottedQuad(host)
               /\ q # e + 1
               /\ IsPathOrQuery(IF loose THEN DropFinalNewline(rest) ELSE rest)

\* C9 as stated: is_valid_url returns true only for scheme :// host with a
\* hostname whose final label is 2 or more letters, localhost or four groups
\* of 1-3 digits, then an optional port and an optional path/query without
\* whitespace; it returns false for the empty string.
C9_ValidOnlyForClaimedShape ==
    /\ valid = "valid" => HasUrlShape(url_input, FALSE)
    /\ (valid # "unchecked" /\ url_input = <<>>) => valid = "invalid"

\* C9 as amended: the final label of the hostname is 2 or more letters,
\* digits or hyphens and may be followed by one dot, and one newline may end
\* the string.
C9_ValidOnlyForLooseShape ==
    /\ valid = "valid" => HasUrlShape(url_input, TRUE)
    /\ (valid # "unchecked" /\ url_input = <<>>) => valid = "invalid"

C9_Witness ==
    /\ valid = "valid"
    /\ HasUrlShape(url_input, TRUE)
    /\ ~HasUrlShape(url_input, FALSE)

\* C10: a submission goes Idle -> Submitting -> one terminal state -> Idle;
\* a POST is issued exactly when a submission starts and never again after
\* a failure; the terminal state shows exactly one of the five outcome
\* messages, the one of its kind.
C10_OneSubmissionOneOutcome ==
    /\ [](pc \in {"Idle", "Submitting", "Succeeded", "TransportFailed", "ApiErrored"})
    /\ [](pc = "Submitting" => OutcomeCount + ErrorCount = 0)
    /\ [](pc \in Terminal => OutcomeCount + ErrorCount = 1)
    /\ [](pc = "Succeeded" => OutcomeCount = 1)
    /\ [](pc = "TransportFailed"
            => \E i \in DOMAIN rendered : rendered[i].msg = "Request failed")
    /\ [](pc = "ApiErrored"
            => \E i \in DOMAIN rendered : rendered[i].msg = "API Error")
    /\ [][pc' # pc
            => \/ pc = "Idle" /\ pc' = "Submitting"
               \/ pc = "Submitting" /\ pc' \in {"Succeeded", "TransportFailed", "ApiErrored"}
               \/ pc \in {"Succeeded", "TransportFailed", "ApiErrored"} /\ pc' = "Idle"]_vars
    /\ [][IF pc = "Idle" /\ pc' = "Submitting"
          THEN requests' = Append(requests, PostRequest(url_input))
          ELSE requests' = requests]_vars

C10_Witness ==
    /\ pc = "TransportFailed"
    /\ clicks = 2
    /\ Len(requests) = 2
    /\ ErrorCount = 1

====
